---- MODULE Spec2Model ----
(***************************************************************************)
(* Deployment orchestration of the sub-domains manager: the clients routes *)
(* (create client, deploy, undeploy, update) driving the Cloudflare DNS    *)
(* adapter and the Coolify deployment adapter.                             *)
(*                                                                         *)
(* Every route handler is an async function: each action below is one      *)
(* awaited call (a provider request or a store access) together with the   *)
(* synchronous code that follows it up to the next await.                  *)
(***************************************************************************)
EXTENDS Integers, FiniteSets, Sequences, TLC

\* ---------------------------------------------------------------- bounds
\* Request slots: how many handler invocations can be in flight at once.
MaxReqs == 1
\* Tenants (Client documents); tenant c has the subdomain Subdomain(c).
MaxClients == 1
\* Upper bound on the resources of one name kept at a provider.
MaxPerName == 2

Reqs == 1..MaxReqs
Clients == 1..MaxClients
Users == {"alice", "bob"}

\* variant: every tenant has the same subdomain
Subdomain_shared(c) == 1

\* the subdomain of tenant c: tenants differ in their subdomain
Subdomain(c) == c
\* req.user.userId that the documents of tenant c carry in `owner`
Owner(c) == IF c % 2 = 1 THEN "alice" ELSE "bob"

\* A provider request ends with an HTTP status; 200 is success, 0 stands for
\* an axios error without a response (transport failure).
FailStatuses == {0, 404, 500}
Outcomes == {200} \cup FailStatuses

VARIABLES
    env,        \* process.env: which credentials / static options are set
    store,      \* whether Client.save() can reject
    clients,    \* the Client collection: per tenant, stored? and isDeployed
    dns,        \* Cloudflare: number of A records per name
    apps,       \* Coolify: number of applications per name
    req,        \* handler invocations in flight
    last,       \* the invocation that answered most recently
    input,      \* argument of an adapter function called on its own
    output      \* what that call returned or threw

vars == <<env, store, clients, dns, apps, req, last, input, output>>

\* no adapter function is being called on its own
NoCall == [fn |-> "none"]

\* ---------------------------------------------------------------- errors
NoErr == [name |-> "none", code |-> "none", status |-> 0, msg |-> "none"]

\* CloudflareAPI.handleError
CloudflareHandleError(status) ==
    [name |-> "CloudflareAPIError",
     code |-> CASE status = 401 -> "UNAUTHORIZED"
                [] status = 403 -> "FORBIDDEN"
                [] status = 404 -> "NOT_FOUND"
                [] status = 429 -> "RATE_LIMIT"
                [] OTHER -> "API_ERROR",
     status |-> status,
     msg |-> "cloudflare"]

\* CoolifyAPI.handleError applied to an axios error of the given status:
\* without a response `data` is undefined and `data.errors` throws a
\* TypeError before the CoolifyAPIError is built.
CoolifyHandleAxiosError(status, context) ==
    IF status = 0
    THEN [name |-> "TypeError", code |-> "none", status |-> 0,
          msg |-> "reading 'errors' of undefined"]
    ELSE [name |-> "CoolifyAPIError", code |-> "API_ERROR",
          status |-> status, msg |-> context]

\* CoolifyAPI.handleError applied to any other thrown value (a
\* CoolifyAPIError raised inside the try block included).
CoolifyHandleOtherError(err) ==
    [name |-> "CoolifyAPIError", code |-> "UNKNOWN_ERROR", status |-> 500,
     msg |-> err.msg]

\* ---------------------------------------------------------------- state
NoResp == [status |-> 0, msg |-> "none", errors |-> {}, err |-> NoErr]

\* One handler invocation: its position, the locals of the route (client,
\* errors, error), what it has sent, and a log of its provider requests
\* (calls issued, calls that failed, provider state when it started, and
\* the failed phases of a partial undeploy of a Deployed tenant that was
\* answered directly before it).
Idle == [pc |-> "idle", op |-> "none", cl |-> 1, user |-> "alice",
         loaded |-> FALSE, isDeployed |-> FALSE, dnsPhase |-> "none",
         appFound |-> FALSE, calls |-> {}, failed |-> {},
         dns0 |-> 0, apps0 |-> 0, partialBefore |-> {},
         depErr |-> NoErr, cleanup |-> "none", errors |-> {},
         resp |-> NoResp, sent |-> 0]

Init ==
    /\ env \in [cloudflare : BOOLEAN, coolify : BOOLEAN, config : BOOLEAN]
    /\ store = "reliable"
    /\ clients \in [Clients -> {[stored |-> FALSE, isDeployed |-> FALSE],
                                 [stored |-> TRUE, isDeployed |-> FALSE],
                                 [stored |-> TRUE, isDeployed |-> TRUE]}]
    /\ dns \in [Clients -> 0..MaxPerName]
    /\ apps \in [Clients -> 0..MaxPerName]
    /\ req = [r \in Reqs |-> Idle]
    /\ last = Idle
    /\ input = NoCall /\ output = NoCall

\* res.status(s).json(...) followed by return
Respond(rec, status, msg, errors, err) ==
    [rec EXCEPT !.pc = "done",
                !.resp = [status |-> status, msg |-> msg,
                          errors |-> errors, err |-> err],
                !.sent = @ + 1]

\* one provider request of the invocation with outcome o, logged
Called(rec, call, o) ==
    [rec EXCEPT !.calls = @ \cup {call},
                !.failed = IF o = 200 THEN @ ELSE @ \cup {call}]

\* No other invocation on tenant c is in flight (the caller serialises the
\* operations of one tenant).
Exclusive(r, c) ==
    \A q \in Reqs \ {r} : req[q].pc = "idle" \/ req[q].cl # c

\* the handler of slot r is at label l
At(r, l) == req[r].pc = l
\* slot r can take a new request
Free(r) == req[r].pc = "idle"
\* The invocation of slot r becomes rec.  An invocation that has answered
\* leaves its slot, and `last` keeps it until the next one answers or a new
\* request arrives.
Settle(r, rec) ==
    /\ req' = [req EXCEPT ![r] = IF rec.pc = "done" THEN Idle ELSE rec]
    /\ last' = IF rec.pc = "done" THEN rec
               ELSE IF req[r].pc = "idle" THEN Idle ELSE last
    /\ UNCHANGED <<input, output>>

\* the invocation of slot r becomes rec; nothing else changes
Local(r, rec) ==
    /\ Settle(r, rec)
    /\ UNCHANGED <<env, store, clients, dns, apps>>

\* outcomes of Client.save()
SaveOutcomes == IF store = "reliable" THEN {TRUE} ELSE BOOLEAN
SaveError == [name |-> "Error", code |-> "none", status |-> 0,
              msg |-> "save"]

\* variant: the query does not filter on the owner
FindOne_anyOwner(c, u) == clients[c].stored

\* Client.findOne({_id, owner})
FindOne(c, u) == clients[c].stored /\ Owner(c) = u

\* checkCloudflareAPI(res) / checkCoolifyAPI(res)
checkCloudflareAPI == env.cloudflare
checkCoolifyAPI == env.coolify

\* ------------------------------------------- CloudflareAPI.deleteSubdomainRecord
\* variant: a failed cleanup is answered instead of the deployment error
DeployCleanupReturn_escalates(rec, ok) ==
    LET rc == [rec EXCEPT !.cleanup = IF ok THEN "ok" ELSE "failed"]
    IN  Respond(rc, 500, "Deployment failed", {},
                IF ok THEN rec.depErr ELSE CloudflareHandleError(500))

\* deleteSubdomainRecord returned (ok) or threw (~ok) in the catch block of
\* the deployment phase of the deploy route: the failure is only logged and
\* the deployment error is answered
DeployCleanupReturn(rec, ok) ==
    LET e == rec.depErr
        rc == [rec EXCEPT !.cleanup = IF ok THEN "ok" ELSE "failed"]
    IN  IF e.name = "CoolifyAPIError"
        THEN Respond(rc, IF e.status = 0 THEN 500 ELSE e.status,
                     "Deployment failed", {}, e)
        ELSE Respond(rc, 500, "Deployment failed", {}, e)

\* variant: a failed DNS delete ends the undeploy route
UndeployDnsReturn_shortcircuit(rec, ok) ==
    IF ok THEN [rec EXCEPT !.pc = "appDelFind", !.dnsPhase = "ok"]
    ELSE Respond([rec EXCEPT !.dnsPhase = "failed", !.errors = {"dns"}],
                 500, "Failed to undeploy client", {"dns"}, NoErr)

\* deleteSubdomainRecord returned (ok) or threw (~ok) in the undeploy
\* route: the failure is pushed on errors and the route goes on
UndeployDnsReturn(rec, ok) ==
    [rec EXCEPT !.pc = "appDelFind",
                !.dnsPhase = IF ok THEN "ok" ELSE "failed",
                !.errors = IF ok THEN @ ELSE @ \cup {"dns"}]

\* the continuation of the route that called deleteSubdomainRecord
DnsDeleteReturn(rec, ok) ==
    IF rec.op = "deploy" THEN DeployCleanupReturn(rec, ok)
    ELSE UndeployDnsReturn(rec, ok)

\* variant: off by one, a single record is not deleted
RecordFound_offbyone(n) == n > 1

\* response.data.result.length > 0
RecordFound(n) == n > 0

\* GET dns_records?name=...: resolve the record id
DnsDeleteList(r) ==
    /\ At(r, "dnsDelList")
    /\ \E o \in Outcomes :
        LET rec == Called(req[r], "dnsFind", o)
        IN  Local(r, IF o # 200 THEN DnsDeleteReturn(rec, FALSE)
                     ELSE IF RecordFound(dns[Subdomain(rec.cl)])
                          THEN [rec EXCEPT !.pc = "dnsDelDelete"]
                          ELSE DnsDeleteReturn(rec, TRUE))

\* DELETE dns_records/{result[0].id}
DnsDeleteDelete(r) ==
    /\ At(r, "dnsDelDelete")
    /\ \E o \in Outcomes :
        LET rec == Called(req[r], "dnsDelete", o)
            s == Subdomain(rec.cl)
        IN  /\ o = 200 => dns[s] > 0     \* a record that is gone: 404
            /\ Settle(r, DnsDeleteReturn(rec, o = 200))
            /\ dns' = IF o = 200 THEN [dns EXCEPT ![s] = @ - 1] ELSE dns
            /\ UNCHANGED <<env, store, clients, apps>>

\* ------------------------------------------------ CoolifyAPI.createDeployment
\* variant: a failed deployment fails the create-client request
CreateDeployFailed_fails(rec, err) ==
    Respond([rec EXCEPT !.depErr = err], 500, "Server error", {}, err)

\* the catch block around createDeployment in the create route only logs;
\* res.status(201).json(client) follows
CreateDeployFailed(rec, err) ==
    Respond([rec EXCEPT !.depErr = err], 201, "client", {}, NoErr)

\* createDeployment threw err: the catch block of the calling route.
\* updateDeployment passes the error of its create fallback through its own
\* handleError first.
CreateDeploymentThrow(rec, err) ==
    CASE rec.op = "deploy" ->
            [rec EXCEPT !.depErr = err, !.pc = "dnsDelList"]
      [] rec.op = "create" -> CreateDeployFailed(rec, err)
      [] OTHER ->
            LET e == CoolifyHandleOtherError(err)
            IN  Respond([rec EXCEPT !.depErr = e], 500,
                        "Failed to update deployment", {}, e)

\* createDeployment returned: what the calling route does next
CreateDeploymentReturn(rec) ==
    CASE rec.op = "deploy" -> [rec EXCEPT !.pc = "deploySave"]
      [] rec.op = "create" -> [rec EXCEPT !.pc = "createSave"]
      [] OTHER -> Respond(rec, 200, "client", {}, NoErr)

\* variant: the application is never created
AfterFind_nocreate(existingApp) == "cdSetEnv"

\* if (existingApp) reuse its uuid, else create the application
AfterFind(existingApp) == IF existingApp THEN "cdSetEnv" ELSE "cdCreate"

\* validation of the static options, then findApplicationByName, whose
\* catch block turns a failed listing into "no such application"
CreateDeploymentFind(r) ==
    /\ At(r, "cdFind")
    /\ IF ~env.config
       THEN Local(r, CreateDeploymentThrow(req[r],
                CoolifyHandleOtherError(
                    [name |-> "CoolifyAPIError", code |-> "INVALID_PARAMETER",
                     status |-> 0, msg |-> "static options required"])))
       ELSE \E o \in Outcomes :
            LET existingApp == o = 200 /\ apps[Subdomain(req[r].cl)] > 0
                rec == [Called(req[r], "appList", o)
                            EXCEPT !.appFound = existingApp]
            IN  Local(r, [rec EXCEPT !.pc = AfterFind(existingApp)])

\* POST /api/v1/applications/public; a 2xx answer may lack the uuid
CreateDeploymentCreate(r) ==
    /\ At(r, "cdCreate")
    /\ \E o \in Outcomes, uuid \in BOOLEAN :
        LET rec == Called(req[r], "appCreate", IF uuid THEN o ELSE 0)
            s == Subdomain(rec.cl)
        IN  /\ o = 200 => apps[s] < MaxPerName
            /\ o # 200 => uuid
            /\ apps' = IF o = 200 THEN [apps EXCEPT ![s] = @ + 1] ELSE apps
            /\ Settle(r,
                  IF o # 200
                  THEN CreateDeploymentThrow(rec,
                           CoolifyHandleAxiosError(o, "create application"))
                  ELSE IF ~uuid
                  THEN CreateDeploymentThrow(rec, CoolifyHandleOtherError(
                           [name |-> "CoolifyAPIError",
                            code |-> "INVALID_RESPONSE", status |-> 0,
                            msg |-> "created but no ID returned"]))
                  ELSE [rec EXCEPT !.pc = "cdSetEnv"])
            /\ UNCHANGED <<env, store, clients, dns>>

\* variant: the PATCH is not awaited, its rejection is not seen
SetEnvResolved_unawaited(o) == TRUE

\* await axios.patch(...): resolves on a 2xx answer, throws otherwise
SetEnvResolved(o) == o = 200

\* PATCH /api/v1/applications/{id}/envs/bulk
CreateDeploymentSetEnv(r) ==
    /\ At(r, "cdSetEnv")
    /\ \E o \in Outcomes :
        LET rec == Called(req[r], "setEnv", o)
        IN  Local(r, IF SetEnvResolved(o) THEN [rec EXCEPT !.pc = "cdDeploy"]
                     ELSE CreateDeploymentThrow(rec,
                              CoolifyHandleAxiosError(o, "set environment")))

\* GET /api/v1/deploy?uuid={id}
CreateDeploymentDeploy(r) ==
    /\ At(r, "cdDeploy")
    /\ \E o \in Outcomes :
        LET rec == Called(req[r], "trigger", o)
        IN  Local(r, IF o = 200 THEN CreateDeploymentReturn(rec)
                     ELSE CreateDeploymentThrow(rec,
                              CoolifyHandleAxiosError(o, "trigger deploy")))

\* --------------------------------------------------- router.post('/:id/deploy')
\* a new invocation of route op on tenant c by user u
NewReq(op, c, u) ==
    [Idle EXCEPT !.op = op, !.cl = c, !.user = u,
                 !.loaded = clients[c].isDeployed,
                 !.isDeployed = clients[c].isDeployed,
                 !.dns0 = dns[Subdomain(c)], !.apps0 = apps[Subdomain(c)],
                 !.partialBefore =
                     IF /\ last.pc = "done" /\ last.op = "undeploy"
                        /\ last.cl = c /\ last.loaded
                        /\ last.resp.status = 207
                     THEN last.resp.errors ELSE {}]

\* variant: the precondition is not checked
AlreadyDeployed_unchecked(c) == FALSE

\* if (client.isDeployed): the tenant is already deployed
AlreadyDeployed(c) == clients[c].isDeployed

\* variant: the failure is only logged, as in the create-client route
DeployDnsFailed_swallowed(rec, o) ==
    [rec EXCEPT !.dnsPhase = "failed", !.pc = "cdFind"]

\* the catch block of the DNS phase
DeployDnsFailed(rec, o) ==
    Respond([rec EXCEPT !.dnsPhase = "failed"], 500,
            "Failed to manage DNS record", {}, CloudflareHandleError(o))

\* Client.findOne, the isDeployed precondition and the service checks
DeployStart(r, c, u) ==
    /\ Free(r)
    /\ LET rec == NewReq("deploy", c, u)
       IN  Local(r,
             IF ~FindOne(c, u)
             THEN Respond(rec, 404, "Client not found", {}, NoErr)
             ELSE IF AlreadyDeployed(c)
             THEN Respond(rec, 400, "Client is already deployed", {}, NoErr)
             ELSE IF ~checkCloudflareAPI \/ ~checkCoolifyAPI
             THEN Respond(rec, 503, "service unavailable", {}, NoErr)
             ELSE [rec EXCEPT !.pc = "deployDnsCheck"])

\* cloudflare.checkSubdomainAvailability: available iff no record matches
DeployDnsCheck(r) ==
    /\ At(r, "deployDnsCheck")
    /\ \E o \in Outcomes :
        LET rec == Called(req[r], "dnsCheck", o)
            available == dns[Subdomain(rec.cl)] = 0
        IN  Local(r,
              IF o # 200
              THEN DeployDnsFailed(rec, o)
              ELSE IF available
              THEN [rec EXCEPT !.pc = "deployDnsCreate"]
              ELSE [rec EXCEPT !.dnsPhase = "exists", !.pc = "cdFind"])

\* cloudflare.createSubdomainRecord; the provider rejects a record
\* identical to an existing one
DeployDnsCreate(r) ==
    /\ At(r, "deployDnsCreate")
    /\ \E o \in Outcomes :
        LET rec == Called(req[r], "dnsCreate", o)
            s == Subdomain(rec.cl)
        IN  /\ o = 200 => dns[s] = 0
            /\ dns' = IF o = 200 THEN [dns EXCEPT ![s] = @ + 1] ELSE dns
            /\ Settle(r,
                  IF o = 200
                  THEN [rec EXCEPT !.dnsPhase = "created", !.pc = "cdFind"]
                  ELSE DeployDnsFailed(rec, o))
            /\ UNCHANGED <<env, store, clients, apps>>

\* client.isDeployed = true; await client.save(); res.json(...)
\* A rejected save lands in the catch block of the deployment phase.
DeploySave(r) ==
    /\ At(r, "deploySave")
    /\ \E saved \in SaveOutcomes :
        LET rec == req[r]
        IN  /\ clients' = IF saved
                          THEN [clients EXCEPT ![rec.cl].isDeployed = TRUE]
                          ELSE clients
            /\ Settle(r,
                  IF saved
                  THEN Respond([rec EXCEPT !.isDeployed = TRUE], 200,
                               "Deployment successful", {}, NoErr)
                  ELSE [rec EXCEPT !.depErr = SaveError,
                                   !.pc = "dnsDelList"])
            /\ UNCHANGED <<env, store, dns, apps>>

\* ------------------------------------------------- router.delete('/:id/deploy')
\* the service checks, then Client.findOne
UndeployStart(r, c, u) ==
    /\ Free(r)
    /\ LET rec == NewReq("undeploy", c, u)
       IN  Local(r,
             IF ~checkCloudflareAPI \/ ~checkCoolifyAPI
             THEN Respond(rec, 503, "service unavailable", {}, NoErr)
             ELSE IF ~FindOne(c, u)
             THEN Respond(rec, 404, "Client not found", {}, NoErr)
             ELSE [rec EXCEPT !.pc = "dnsDelList"])

\* variant: one failed phase is answered like two
UndeployResponse_nopartial(rec) ==
    IF Cardinality(rec.errors) = 0
    THEN Respond(rec, 200, "Client undeployed successfully", {}, NoErr)
    ELSE Respond(rec, 500, "Failed to undeploy client", rec.errors, NoErr)

\* the answer of the undeploy route by the number of failed phases
UndeployResponse(rec) ==
    CASE Cardinality(rec.errors) = 0 ->
            Respond(rec, 200, "Client undeployed successfully", {}, NoErr)
      [] Cardinality(rec.errors) = 2 ->
            Respond(rec, 500, "Failed to undeploy client", rec.errors, NoErr)
      [] OTHER ->
            Respond(rec, 207, "Client partially undeployed", rec.errors,
                    NoErr)

\* variant: the flag is cleared whatever the phases did
FlagCleared_always(errors) == TRUE

\* variant: the flag is cleared only when no phase failed
FlagCleared_strict(errors) == Cardinality(errors) < 1

\* if (errors.length < 2): the flag is cleared
FlagCleared(errors) == Cardinality(errors) < 2

\* coolify.deleteDeployment threw (~ok) or returned (ok): the route scores
\* the phase; with fewer than two failures it goes on to the flag
AppDeleteReturn(rec, ok) ==
    LET rc == [rec EXCEPT !.errors = IF ok THEN @ ELSE @ \cup {"app"}]
    IN  IF FlagCleared(rc.errors)
        THEN [rc EXCEPT !.pc = "undeploySave"]
        ELSE UndeployResponse(rc)

\* deleteDeployment: findApplicationByName; no application is a
\* CoolifyAPIError('NOT_FOUND') thrown inside the try block
AppDeleteFind(r) ==
    /\ At(r, "appDelFind")
    /\ \E o \in Outcomes :
        LET app == o = 200 /\ apps[Subdomain(req[r].cl)] > 0
            rec == [Called(req[r], "appList", o) EXCEPT !.appFound = app]
        IN  Local(r, IF app THEN [rec EXCEPT !.pc = "appDelDelete"]
                     ELSE AppDeleteReturn(
                            [rec EXCEPT !.depErr = CoolifyHandleOtherError(
                               [name |-> "CoolifyAPIError",
                                code |-> "NOT_FOUND", status |-> 404,
                                msg |-> "Application not found"])], FALSE))

\* DELETE /api/v1/applications/{app.uuid}
AppDeleteDelete(r) ==
    /\ At(r, "appDelDelete")
    /\ \E o \in Outcomes :
        LET rec == Called(req[r], "appDelete", o)
            s == Subdomain(rec.cl)
        IN  /\ o = 200 => apps[s] > 0
            /\ apps' = IF o = 200 THEN [apps EXCEPT ![s] = @ - 1] ELSE apps
            /\ Settle(r,
                  IF o = 200 THEN AppDeleteReturn(rec, TRUE)
                  ELSE AppDeleteReturn(
                         [rec EXCEPT !.depErr = CoolifyHandleAxiosError(o,
                                         "delete application")], FALSE))
            /\ UNCHANGED <<env, store, clients, dns>>

\* errors.length < 2: client.isDeployed = false; await client.save()
\* (save writes the paths the assignment modified)
UndeploySave(r) ==
    /\ At(r, "undeploySave")
    /\ \E saved \in SaveOutcomes :
        LET rec == req[r]
        IN  /\ clients' = IF saved /\ rec.loaded
                          THEN [clients EXCEPT ![rec.cl].isDeployed = FALSE]
                          ELSE clients
            /\ Settle(r,
                  IF saved
                  THEN UndeployResponse([rec EXCEPT !.isDeployed = FALSE])
                  ELSE Respond(rec, 500, "Server error", {}, SaveError))
            /\ UNCHANGED <<env, store, dns, apps>>

\* ------------------------------------------------------------ router.post('/')
\* request validation and the service checks; the tenant is new
CreateStart(r, c) ==
    /\ Free(r)
    /\ ~clients[c].stored
    /\ LET rec == NewReq("create", c, Owner(c))
       IN  Local(r,
             IF ~checkCloudflareAPI \/ ~checkCoolifyAPI
             THEN Respond(rec, 503, "service unavailable", {}, NoErr)
             ELSE [rec EXCEPT !.pc = "createDnsCheck"])

\* cloudflare.checkSubdomainAvailability before the document is built
CreateDnsCheck(r) ==
    /\ At(r, "createDnsCheck")
    /\ \E o \in Outcomes :
        LET rec == Called(req[r], "dnsCheck", o)
            available == dns[Subdomain(rec.cl)] = 0
        IN  Local(r,
              IF o # 200
              THEN Respond(rec, 500,
                           "Failed to check subdomain availability", {},
                           NoErr)
              ELSE IF ~available
              THEN Respond(rec, 400, "This subdomain is not available", {},
                           NoErr)
              ELSE [rec EXCEPT !.pc = "createStore"])

\* new Client({...}); await client.save()
CreateStore(r) ==
    /\ At(r, "createStore")
    /\ \E saved \in SaveOutcomes :
        LET rec == req[r]
        IN  /\ clients' = IF saved
                          THEN [clients EXCEPT ![rec.cl] =
                                  [stored |-> TRUE, isDeployed |-> FALSE]]
                          ELSE clients
            /\ Settle(r,
                  IF saved THEN [rec EXCEPT !.pc = "createDnsCreate"]
                  ELSE Respond(rec, 500, "Server error", {}, SaveError))
            /\ UNCHANGED <<env, store, dns, apps>>

\* cloudflare.createSubdomainRecord inside a try whose catch only logs
CreateDnsCreate(r) ==
    /\ At(r, "createDnsCreate")
    /\ \E o \in Outcomes :
        LET rec == Called(req[r], "dnsCreate", o)
            s == Subdomain(rec.cl)
        IN  /\ o = 200 => dns[s] = 0
            /\ dns' = IF o = 200 THEN [dns EXCEPT ![s] = @ + 1] ELSE dns
            /\ Settle(r,
                  [rec EXCEPT !.dnsPhase = IF o = 200 THEN "created"
                                           ELSE "failed",
                              !.pc = "cdFind"])
            /\ UNCHANGED <<env, store, clients, apps>>

\* client.isDeployed = true; await client.save() inside the try whose
\* catch only logs; then res.status(201).json(client)
CreateSave(r) ==
    /\ At(r, "createSave")
    /\ \E saved \in SaveOutcomes :
        LET rec == req[r]
        IN  /\ clients' = IF saved
                          THEN [clients EXCEPT ![rec.cl].isDeployed = TRUE]
                          ELSE clients
            /\ Settle(r,
                  Respond([rec EXCEPT !.isDeployed = TRUE], 201, "client",
                          {}, NoErr))
            /\ UNCHANGED <<env, store, dns, apps>>

\* --------------------------------------------------------- router.put('/:id')
\* request validation and Client.findOne
UpdateStart(r, c, u) ==
    /\ Free(r)
    /\ LET rec == NewReq("update", c, u)
       IN  Local(r,
             IF ~FindOne(c, u)
             THEN Respond(rec, 404, "Client not found", {}, NoErr)
             ELSE [rec EXCEPT !.pc = "updateSave"])

\* variant: the deployment is updated whatever the flag
UpdatesDeployment_always(isDeployed) == TRUE

\* if (client.isDeployed && ...): the left operand of the guard
UpdatesDeployment(isDeployed) == isDeployed

\* Object.assign(client, updates); await client.save(); then the
\* deployment is updated if client.isDeployed && checkCoolifyAPI(res).
\* When the check fails it has answered 503 and res.json(client) follows.
UpdateSave(r) ==
    /\ At(r, "updateSave")
    /\ \E saved \in SaveOutcomes :
        LET rec == req[r]
        IN  Local(r,
              IF ~saved
              THEN Respond(rec, 500, "Server error", {}, SaveError)
              ELSE IF ~UpdatesDeployment(rec.isDeployed)
              THEN Respond(rec, 200, "client", {}, NoErr)
              ELSE IF checkCoolifyAPI
              THEN [rec EXCEPT !.pc = "udFind"]
              ELSE [Respond(rec, 503, "service unavailable", {}, NoErr)
                       EXCEPT !.sent = 2])

\* variant: the failure is logged and the client returned
UpdateDeploymentThrow_swallowed(rec, err) ==
    Respond([rec EXCEPT !.depErr = err], 200, "client", {}, NoErr)

\* updateDeployment threw: the catch block of the update route
UpdateDeploymentThrow(rec, err) ==
    Respond([rec EXCEPT !.depErr = err], 500, "Failed to update deployment",
            {}, err)

\* variant: no create fallback, the update goes on without an application
AfterUpdateFind_nofallback(app) == "udSetEnv"

\* if (!app) { await this.createDeployment(params); return; }
AfterUpdateFind(app) == IF app THEN "udSetEnv" ELSE "cdFind"

\* updateDeployment: findApplicationByName; without an application it
\* calls createDeployment
UpdateDeploymentFind(r) ==
    /\ At(r, "udFind")
    /\ \E o \in Outcomes :
        LET app == o = 200 /\ apps[Subdomain(req[r].cl)] > 0
            rec == [Called(req[r], "appList", o) EXCEPT !.appFound = app]
        IN  Local(r, [rec EXCEPT !.pc = AfterUpdateFind(app)])

\* PATCH /api/v1/applications/{app.uuid}/envs/bulk
UpdateDeploymentSetEnv(r) ==
    /\ At(r, "udSetEnv")
    /\ \E o \in Outcomes :
        LET rec == Called(req[r], "setEnv", o)
        IN  Local(r, IF SetEnvResolved(o) THEN [rec EXCEPT !.pc = "udDeploy"]
                     ELSE UpdateDeploymentThrow(rec,
                              CoolifyHandleAxiosError(o, "set environment")))

\* GET /api/v1/deploy?uuid={app.uuid}
UpdateDeploymentDeploy(r) ==
    /\ At(r, "udDeploy")
    /\ \E o \in Outcomes :
        LET rec == Called(req[r], "trigger", o)
        IN  Local(r, IF o = 200 THEN Respond(rec, 200, "client", {}, NoErr)
                     ELSE UpdateDeploymentThrow(rec,
                              CoolifyHandleAxiosError(o, "trigger deploy")))

\* ------------------------------------------------------------ specification
Next ==
    \E r \in Reqs :
        \/ \E c \in Clients : Exclusive(r, c) /\ CreateStart(r, c)
        \/ CreateDnsCheck(r)
        \/ CreateStore(r)
        \/ CreateDnsCreate(r)
        \/ CreateSave(r)
        \/ \E c \in Clients, u \in Users :
              Exclusive(r, c) /\ DeployStart(r, c, u)
        \/ DeployDnsCheck(r)
        \/ DeployDnsCreate(r)
        \/ DeploySave(r)
        \/ \E c \in Clients, u \in Users :
              Exclusive(r, c) /\ UndeployStart(r, c, u)
        \/ DnsDeleteList(r)
        \/ DnsDeleteDelete(r)
        \/ AppDeleteFind(r)
        \/ AppDeleteDelete(r)
        \/ UndeploySave(r)
        \/ \E c \in Clients, u \in Users :
              Exclusive(r, c) /\ UpdateStart(r, c, u)
        \/ UpdateSave(r)
        \/ UpdateDeploymentFind(r)
        \/ UpdateDeploymentSetEnv(r)
        \/ UpdateDeploymentDeploy(r)
        \/ CreateDeploymentFind(r)
        \/ CreateDeploymentCreate(r)
        \/ CreateDeploymentSetEnv(r)
        \/ CreateDeploymentDeploy(r)

Spec == Init /\ [][Next]_vars

\* ------------------------------------------------------------------ claims
\* the most recent answer is that of route op
Answered(op) == last.pc = "done" /\ last.op = op
\* ... and the invocation came from the owner of a stored tenant with both
\* provider clients available, so that it got past its preconditions
Admitted(op) ==
    /\ Answered(op)
    /\ clients[last.cl].stored /\ last.user = Owner(last.cl)
    /\ env.cloudflare /\ env.coolify
DnsCalls == {"dnsCheck", "dnsCreate", "dnsFind", "dnsDelete"}
DeploymentCalls == {"appList", "appCreate", "setEnv", "trigger", "appDelete"}

\* C1: the flag of a tenant becomes Deployed only in the step of an
\* invocation whose DNS phase succeeded (record found existing or created)
\* and whose deployment phase succeeded (no error, environment set and
\* deploy triggered), in the create-client route as in the deploy route.
C1_DeployedOnlyAfterBothPhases ==
    [][\A c \in Clients :
         (~clients[c].isDeployed /\ clients'[c].isDeployed) =>
            /\ last'.pc = "done" /\ last'.cl = c
            /\ last'.dnsPhase \in {"exists", "created"}
            /\ last'.depErr = NoErr
            /\ {"setEnv", "trigger"} \subseteq last'.calls \ last'.failed]_vars

\* C2: a Deploy by the owner on a tenant loaded with the flag Deployed is
\* answered 400 "already deployed", has issued no provider request, and
\* the step that answers it changes neither the DNS records, nor the
\* applications, nor the flag.
C2_DeployRejectedWhenDeployed ==
    /\ [](Answered("deploy") /\ last.loaded /\ last.user = Owner(last.cl) =>
            /\ last.resp.status = 400
            /\ last.resp.msg = "Client is already deployed"
            /\ last.calls = {}
            /\ clients[last.cl].isDeployed)
    /\ [][(last' # last /\ last'.pc = "done" /\ last'.op = "deploy"
            /\ last'.loaded) =>
          (dns' = dns /\ apps' = apps /\ clients' = clients)]_vars

\* a second Deploy was rejected while the record and the application of
\* the first are in place
C2_Witness ==
    /\ Answered("deploy") /\ last.loaded /\ last.resp.status = 400
    /\ dns[Subdomain(last.cl)] = 1 /\ apps[Subdomain(last.cl)] = 1

\* C3: a Deploy admitted on a NotDeployed tenant (static options set) that
\* started with a DNS record and without an application, and none of whose
\* provider requests failed, has issued no DNS create, has created the
\* application, set its environment and triggered the deploy, and leaves
\* the flag Deployed.
C3_DnsExistsContinue ==
    (/\ Admitted("deploy") /\ ~last.loaded /\ env.config
     /\ last.dns0 > 0 /\ last.apps0 = 0 /\ last.failed = {})
    => /\ "dnsCreate" \notin last.calls
       /\ last.calls = {"dnsCheck", "appList", "appCreate", "setEnv",
                        "trigger"}
       /\ clients[last.cl].isDeployed
       /\ last.resp.status = 200
       /\ apps[Subdomain(last.cl)] = 1

C3_Witness ==
    /\ Admitted("deploy") /\ ~last.loaded /\ env.config
    /\ last.dns0 > 0 /\ last.apps0 = 0 /\ last.failed = {}
    /\ "appCreate" \in last.calls /\ clients[last.cl].isDeployed

\* C4: a Deploy that created the DNS record and whose deployment phase
\* then failed leaves the flag NotDeployed, has attempted the compensating
\* delete and, when that delete succeeded, no DNS record of the subdomain
\* is left.
C4_CompensationOnDeploymentFailure ==
    (Answered("deploy") /\ last.dnsPhase = "created" /\ last.depErr # NoErr)
    => /\ ~clients[last.cl].isDeployed
       /\ last.cleanup \in {"ok", "failed"}
       /\ last.cleanup = "ok" => dns[Subdomain(last.cl)] = 0

C4_Witness ==
    /\ Answered("deploy") /\ last.dnsPhase = "created"
    /\ last.depErr # NoErr /\ "trigger" \in last.failed
    /\ last.cleanup = "ok" /\ dns[Subdomain(last.cl)] = 0

\* deleteSubdomainRecord threw in the last invocation: one of its requests
\* failed
DnsDeleteThrew == last.failed \cap {"dnsFind", "dnsDelete"} # {}
\* deleteDeployment threw in the last invocation: it made no successful
\* delete request (the listing or the delete failed, or nothing was found)
AppDeleteThrew == "appDelete" \notin last.calls \ last.failed
\* the phases of the last undeploy that failed
FailedPhases ==
    (IF DnsDeleteThrew THEN {"dns"} ELSE {}) \cup
    (IF AppDeleteThrew THEN {"app"} ELSE {})

\* C5: an admitted Undeploy on a tenant that started with neither a DNS
\* record nor an application, and none of whose provider requests failed,
\* is answered as a full success with no error listed and leaves the flag
\* NotDeployed.
C5_UndeployNothingIsSuccess ==
    (Admitted("undeploy") /\ last.dns0 = 0 /\ last.apps0 = 0
        /\ last.failed = {})
    => /\ last.resp.status = 200
       /\ last.resp.errors = {}
       /\ ~clients[last.cl].isDeployed

\* C6 as stated: after an admitted Undeploy the flag is NotDeployed if and
\* only if at least one of the two phases succeeded.
C6_NotDeployedIffAPhaseSucceeded ==
    Admitted("undeploy") =>
        (~clients[last.cl].isDeployed <=> Cardinality(FailedPhases) < 2)

\* C6 amended: after an admitted Undeploy the flag is NotDeployed if at
\* least one of the two phases succeeded, and it has the value it had
\* before the call if both phases failed.
C6_FlagAfterUndeploy ==
    Admitted("undeploy") =>
        /\ Cardinality(FailedPhases) < 2 => ~clients[last.cl].isDeployed
        /\ Cardinality(FailedPhases) = 2 =>
               clients[last.cl].isDeployed = last.loaded

C6_Witness ==
    /\ Admitted("undeploy") /\ Cardinality(FailedPhases) = 2
    /\ last.loaded /\ clients[last.cl].isDeployed

\* C7: the answer of an admitted Undeploy lists exactly the phases that
\* failed: none is 200 without errors, one is 207 with that phase alone,
\* two is 500 with both; when only the application delete failed the
\* answer is 207 listing it alone and the flag is NotDeployed.
C7_UndeployListsFailedPhases ==
    Admitted("undeploy") =>
        /\ last.resp.errors = FailedPhases
        /\ last.resp.status = CASE Cardinality(FailedPhases) = 0 -> 200
                                [] Cardinality(FailedPhases) = 1 -> 207
                                [] OTHER -> 500
        /\ FailedPhases = {"app"} => ~clients[last.cl].isDeployed

C7_Witness ==
    /\ Admitted("undeploy") /\ last.loaded
    /\ "dnsDelete" \in last.calls \ last.failed
    /\ "appDelete" \in last.failed
    /\ last.resp.status = 207 /\ last.resp.errors = {"app"}
    /\ ~clients[last.cl].isDeployed

\* C8: an admitted Undeploy has always issued the requests of both phases,
\* the application phase also after a failed DNS phase, and when both
\* phases failed its answer carries both errors.
C8_UndeployRunsBothPhases ==
    Admitted("undeploy") =>
        /\ {"dnsFind", "appList"} \subseteq last.calls
        /\ (DnsDeleteThrew /\ AppDeleteThrew) =>
               last.resp.errors = {"dns", "app"}

C8_Witness ==
    /\ Admitted("undeploy") /\ DnsDeleteThrew
    /\ "appDelete" \in last.failed
    /\ last.resp.errors = {"dns", "app"}

\* C9: a Deploy whose availability check or record creation failed is
\* answered 500 "Failed to manage DNS record", leaves the flag NotDeployed
\* and has issued no request to the deployment provider.
C9_DnsFailureAbortsDeploy ==
    (Answered("deploy") /\ last.failed \cap {"dnsCheck", "dnsCreate"} # {})
    => /\ last.resp.status = 500
       /\ last.resp.msg = "Failed to manage DNS record"
       /\ ~clients[last.cl].isDeployed
       /\ last.calls \cap DeploymentCalls = {}

C9_Witness ==
    /\ Answered("deploy") /\ "dnsCreate" \in last.failed
    /\ last.resp.status = 500

\* C10: a Deploy whose deployment phase failed answers with the error that
\* the deployment phase threw, whether the compensating DNS delete
\* succeeded or failed, and leaves the flag NotDeployed.
C10_DeploymentErrorReturned ==
    (Answered("deploy") /\ last.depErr # NoErr)
    => /\ last.cleanup \in {"ok", "failed"}
       /\ last.resp.err = last.depErr
       /\ last.resp.msg = "Deployment failed"
       /\ last.resp.status \notin {200, 201}
       /\ ~clients[last.cl].isDeployed

C10_Witness ==
    /\ Answered("deploy") /\ last.depErr.code = "API_ERROR"
    /\ "setEnv" \in last.failed
    /\ last.cleanup = "failed" /\ last.resp.err = last.depErr

\* --------------------------------------------------- retried deploys (C11)
\* A stored, NotDeployed tenant with at most one record and one application
\* on which only the deploy route is invoked, any number of times.
InitRetry ==
    /\ env \in [cloudflare : BOOLEAN, coolify : BOOLEAN, config : BOOLEAN]
    /\ store = "reliable"
    /\ clients = [c \in Clients |-> [stored |-> TRUE, isDeployed |-> FALSE]]
    /\ dns \in [Clients -> 0..1]
    /\ apps \in [Clients -> 0..1]
    /\ req = [r \in Reqs |-> Idle]
    /\ last = Idle
    /\ input = NoCall /\ output = NoCall

NextRetry ==
    \E r \in Reqs :
        \/ \E c \in Clients, u \in Users :
              Exclusive(r, c) /\ DeployStart(r, c, u)
        \/ DeployDnsCheck(r)
        \/ DeployDnsCreate(r)
        \/ DeploySave(r)
        \/ DnsDeleteList(r)
        \/ DnsDeleteDelete(r)
        \/ CreateDeploymentFind(r)
        \/ CreateDeploymentCreate(r)
        \/ CreateDeploymentSetEnv(r)
        \/ CreateDeploymentDeploy(r)

SpecRetry == InitRetry /\ [][NextRetry]_vars

\* C11: after any number of failed Deploy attempts on a tenant, an admitted
\* Deploy (static options set) none of whose provider requests failed
\* leaves the flag Deployed, exactly one DNS record and exactly one
\* application of the subdomain.
C11_RetryConverges ==
    (Admitted("deploy") /\ ~last.loaded /\ env.config /\ last.failed = {})
    => /\ clients[last.cl].isDeployed
       /\ dns[Subdomain(last.cl)] = 1
       /\ apps[Subdomain(last.cl)] = 1

\* ------------------------------------------------ concurrent deploys (C12)
\* MaxConcurrent deploy invocations in flight at once; the route takes no
\* lock, so the invocations of one tenant interleave at every await.
MaxConcurrent == 2
Slots == 1..MaxConcurrent

InitConcurrent ==
    /\ env = [cloudflare |-> TRUE, coolify |-> TRUE, config |-> TRUE]
    /\ store = "reliable"
    /\ clients = [c \in Clients |-> [stored |-> TRUE, isDeployed |-> FALSE]]
    /\ dns \in [Clients -> 0..1]
    /\ apps \in [Clients -> 0..1]
    /\ req = [r \in Slots |-> Idle]
    /\ last = Idle
    /\ input = NoCall /\ output = NoCall

NextConcurrent ==
    \E r \in Slots :
        \/ \E c \in Clients, u \in Users : DeployStart(r, c, u)
        \/ DeployDnsCheck(r)
        \/ DeployDnsCreate(r)
        \/ DeploySave(r)
        \/ DnsDeleteList(r)
        \/ DnsDeleteDelete(r)
        \/ CreateDeploymentFind(r)
        \/ CreateDeploymentCreate(r)
        \/ CreateDeploymentSetEnv(r)
        \/ CreateDeploymentDeploy(r)

SpecConcurrent == InitConcurrent /\ [][NextConcurrent]_vars

\* C12: when the later of two overlapping Deploy invocations of a tenant
\* finishes (the earlier one answered 200 while it was in flight), none of
\* the provider requests of either having failed and at most one
\* application having existed when each began, at most one application
\* named after the subdomain exists.
C12_ConcurrentDeploysOneApplication ==
    [][\A r \in Slots :
         (/\ At(r, "deploySave") /\ req[r].failed = {} /\ req[r].apps0 <= 1
          /\ Answered("deploy") /\ last.cl = req[r].cl
          /\ last.failed = {} /\ last.apps0 <= 1 /\ last.resp.status = 200
          /\ req'[r].pc = "idle")
         => apps'[Subdomain(req[r].cl)] <= 1]_vars

\* C13: an answered Update has issued no DNS request and has left the flag
\* of its tenant as it found it; when it entered the deployment update and
\* that did not complete (set-environment and trigger-deploy did not both
\* succeed) the caller got the 500 "Failed to update deployment".
C13_UpdateNoDnsFlagKeptFailureReported ==
    Answered("update")
    => /\ last.calls \cap DnsCalls = {}
       /\ clients[last.cl].isDeployed = last.loaded
       /\ ("appList" \in last.calls
              /\ ~({"setEnv", "trigger"} \subseteq last.calls \ last.failed)
            => /\ last.resp.status = 500
               /\ last.resp.msg = "Failed to update deployment")

C13_Witness ==
    /\ Answered("update") /\ last.loaded
    /\ "setEnv" \in last.failed /\ last.appFound
    /\ last.resp.status = 500

\* C14: an admitted Undeploy that directly follows a partial Undeploy of the
\* same, then Deployed, tenant (one phase failed, flag cleared), that finds
\* at most one record and one application and none of whose provider
\* requests fails, leaves neither a record nor an application and is
\* answered as a full success with no failed phase.
C14_ReinvokedUndeployCompletes ==
    (/\ Admitted("undeploy") /\ last.partialBefore # {}
     /\ last.dns0 <= 1 /\ last.apps0 <= 1 /\ last.failed = {})
    => /\ dns[Subdomain(last.cl)] = 0
       /\ apps[Subdomain(last.cl)] = 0
       /\ last.resp.status = 200
       /\ last.resp.errors = {}

\* ------------------------------------------ environment variables (C15, C16)
\* The environment set that createDeployment and updateDeployment PATCH to
\* the provider, as a function of clientData.  A JavaScript string is the
\* sequence of its UTF-16 code units; a value is undefined, null or a string.
MaxHtmlLen == 2

\* '<', 'b', space, e-acute, the euro sign, the two halves of U+1F600, and
\* U+FFFD
CodeUnits == {60, 98, 32, 233, 8364, 55357, 56832, 65533}
Strings(n) == UNION {[1..k -> CodeUnits] : k \in 0..n}

Undefined == [type |-> "undefined", units |-> <<>>]
Null == [type |-> "null", units |-> <<>>]
Str(s) == [type |-> "string", units |-> s]
\* ToBoolean of a value
Truthy(v) == v.type = "string" /\ v.units # <<>>
\* a || b
Or(a, b) == IF Truthy(a) THEN a ELSE b

\* String.prototype.trim on the code units in use
IsSpace(u) == u = 32
RECURSIVE TrimStart(_)
TrimStart(s) ==
    IF s # <<>> /\ IsSpace(Head(s)) THEN TrimStart(Tail(s)) ELSE s
RECURSIVE TrimEnd(_)
TrimEnd(s) ==
    IF s # <<>> /\ IsSpace(s[Len(s)])
    THEN TrimEnd(SubSeq(s, 1, Len(s) - 1)) ELSE s
Trim(s) == TrimEnd(TrimStart(s))

\* an object: its own properties in order, as [key, value] members
Get(obj, key) ==
    IF \E i \in 1..Len(obj) : obj[i].key = key
    THEN obj[CHOOSE i \in 1..Len(obj) : obj[i].key = key].value
    ELSE Undefined
Has(obj, key) == \E i \in 1..Len(obj) : obj[i].key = key
\* { ...obj, key: v }
With(obj, key, v) ==
    IF Has(obj, key)
    THEN [i \in 1..Len(obj) |->
             IF obj[i].key = key THEN [key |-> key, value |-> v] ELSE obj[i]]
    ELSE Append(obj, [key |-> key, value |-> v])
\* const { key, ...rest } = obj
Rest(obj, key) == SelectSeq(obj, LAMBDA m : m.key # key)
\* JSON.stringify of an object: the members of the JSON text; a property
\* whose value is undefined is left out, null is kept
JSONStringify(obj) == SelectSeq(obj, LAMBDA m : m.value.type # "undefined")

\* Buffer.from(str, 'utf8'): the UTF-8 bytes of the string; an unpaired
\* surrogate is encoded as U+FFFD (EF BF BD)
IsHighSurrogate(u) == u >= 55296 /\ u <= 56319
IsLowSurrogate(u) == u >= 56320 /\ u <= 57343
Utf8OfCodePoint(cp) ==
    IF cp < 128 THEN <<cp>>
    ELSE IF cp < 2048 THEN <<192 + (cp \div 64), 128 + (cp % 64)>>
    ELSE IF cp < 65536
    THEN <<224 + (cp \div 4096), 128 + ((cp \div 64) % 64), 128 + (cp % 64)>>
    ELSE <<240 + (cp \div 262144), 128 + ((cp \div 4096) % 64),
           128 + ((cp \div 64) % 64), 128 + (cp % 64)>>

\* variant: one byte per code unit (the 'latin1' encoding)
RECURSIVE BufferFromUtf8_latin1(_)
BufferFromUtf8_latin1(s) ==
    IF s = <<>> THEN <<>>
    ELSE <<Head(s) % 256>> \o BufferFromUtf8_latin1(Tail(s))

RECURSIVE BufferFromUtf8(_)
BufferFromUtf8(s) ==
    IF s = <<>> THEN <<>>
    ELSE IF IsHighSurrogate(s[1]) /\ Len(s) >= 2 /\ IsLowSurrogate(s[2])
    THEN Utf8OfCodePoint(65536 + (s[1] - 55296) * 1024 + (s[2] - 56320))
            \o BufferFromUtf8(SubSeq(s, 3, Len(s)))
    ELSE IF IsHighSurrogate(s[1]) \/ IsLowSurrogate(s[1])
    THEN <<239, 191, 189>> \o BufferFromUtf8(Tail(s))
    ELSE Utf8OfCodePoint(s[1]) \o BufferFromUtf8(Tail(s))

\* buffer.toString('base64'): four symbols per three bytes; a symbol is its
\* index 0..63 in the base64 alphabet, 64 stands for the padding '='
RECURSIVE ToStringBase64(_)
ToStringBase64(b) ==
    IF b = <<>> THEN <<>>
    ELSE IF Len(b) = 1 THEN <<b[1] \div 4, (b[1] % 4) * 16, 64, 64>>
    ELSE IF Len(b) = 2
    THEN <<b[1] \div 4, (b[1] % 4) * 16 + (b[2] \div 16), (b[2] % 16) * 4, 64>>
    ELSE <<b[1] \div 4, (b[1] % 4) * 16 + (b[2] \div 16),
           (b[2] % 16) * 4 + (b[3] \div 64), b[3] % 64>>
            \o ToStringBase64(SubSeq(b, 4, Len(b)))

\* The reader of the variable: base64 decoding of the symbols to bytes ...
RECURSIVE FromBase64(_)
FromBase64(c) ==
    IF c = <<>> THEN <<>>
    ELSE IF c[3] = 64 THEN <<c[1] * 4 + (c[2] \div 16)>>
    ELSE IF c[4] = 64
    THEN <<c[1] * 4 + (c[2] \div 16), (c[2] % 16) * 16 + (c[3] \div 4)>>
    ELSE <<c[1] * 4 + (c[2] \div 16), (c[2] % 16) * 16 + (c[3] \div 4),
           (c[3] % 4) * 64 + c[4]>> \o FromBase64(SubSeq(c, 5, Len(c)))
\* ... and UTF-8 decoding of the bytes to code units; a byte that does not
\* begin a complete sequence decodes to U+FFFD
IsContinuation(b, i) == i <= Len(b) /\ b[i] >= 128 /\ b[i] < 192
RECURSIVE Utf8ToString(_)
Utf8ToString(b) ==
    IF b = <<>> THEN <<>>
    ELSE IF b[1] < 128 THEN <<b[1]>> \o Utf8ToString(Tail(b))
    ELSE IF b[1] >= 194 /\ b[1] < 224 /\ IsContinuation(b, 2)
    THEN <<(b[1] - 192) * 64 + (b[2] - 128)>>
            \o Utf8ToString(SubSeq(b, 3, Len(b)))
    ELSE IF /\ b[1] >= 224 /\ b[1] < 240
            /\ IsContinuation(b, 2) /\ IsContinuation(b, 3)
    THEN <<(b[1] - 224) * 4096 + (b[2] - 128) * 64 + (b[3] - 128)>>
            \o Utf8ToString(SubSeq(b, 4, Len(b)))
    ELSE IF /\ b[1] >= 240 /\ b[1] < 245 /\ IsContinuation(b, 2)
            /\ IsContinuation(b, 3) /\ IsContinuation(b, 4)
    THEN LET cp == (b[1] - 240) * 262144 + (b[2] - 128) * 4096
                       + (b[3] - 128) * 64 + (b[4] - 128) - 65536
         IN  <<55296 + (cp \div 1024), 56320 + (cp % 1024)>>
                \o Utf8ToString(SubSeq(b, 5, Len(b)))
    ELSE <<65533>> \o Utf8ToString(Tail(b))
DecodeBase64(c) == Utf8ToString(FromBase64(c))

\* variant: the variable is added whenever htmlCode is a string
HtmlProvided_defined(clientData) == Get(clientData, "htmlCode").type = "string"

\* if (clientData.htmlCode && clientData.htmlCode.trim())
HtmlProvided(clientData) ==
    /\ Truthy(Get(clientData, "htmlCode"))
    /\ Truthy(Str(Trim(Get(clientData, "htmlCode").units)))

\* envVariables of createDeployment
EnvVariables(clientData) ==
    LET clientDataWithLogo ==
            With(clientData, "logo", Or(Get(clientData, "logo"), Null))
        clientDataForEnv == Rest(clientDataWithLogo, "htmlCode")
        fixed ==
            <<[key |-> "CLIENT_DATA",
               value |-> JSONStringify(clientDataForEnv), is_literal |-> TRUE],
              [key |-> "NODE_ENV",
               value |-> "production", is_literal |-> TRUE],
              [key |-> "NEXT_PUBLIC_CLIENT_DATA",
               value |-> JSONStringify(clientDataForEnv), is_literal |-> TRUE]>>
    IN  IF HtmlProvided(clientData)
        THEN Append(fixed,
                    [key |-> "NEXT_PUBLIC_CUSTOM_HTML_BASE64",
                     value |-> ToStringBase64(BufferFromUtf8(
                                   Get(clientData, "htmlCode").units)),
                     is_literal |-> TRUE])
        ELSE fixed

\* variant: the update writes the payload keys only, leaving NODE_ENV and
\* an earlier NEXT_PUBLIC_CUSTOM_HTML_BASE64 as they were written before
UpdateEnvVariables_delta(clientData) ==
    LET clientDataForEnv == Rest(clientData, "htmlCode")
    IN  <<[key |-> "CLIENT_DATA",
           value |-> JSONStringify(clientDataForEnv), is_literal |-> TRUE],
          [key |-> "NEXT_PUBLIC_CLIENT_DATA",
           value |-> JSONStringify(clientDataForEnv), is_literal |-> TRUE]>>

\* envVariables of updateDeployment
UpdateEnvVariables(clientData) ==
    LET clientDataWithLogo ==
            With(clientData, "logo", Or(Get(clientData, "logo"), Null))
        clientDataForEnv == Rest(clientDataWithLogo, "htmlCode")
        envVariables ==
            <<[key |-> "CLIENT_DATA",
               value |-> JSONStringify(clientDataForEnv), is_literal |-> TRUE],
              [key |-> "NODE_ENV",
               value |-> "production", is_literal |-> TRUE],
              [key |-> "NEXT_PUBLIC_CLIENT_DATA",
               value |-> JSONStringify(clientDataForEnv), is_literal |-> TRUE]>>
    IN  IF HtmlProvided(clientData)
        THEN Append(envVariables,
                    [key |-> "NEXT_PUBLIC_CUSTOM_HTML_BASE64",
                     value |-> ToStringBase64(BufferFromUtf8(
                                   Get(clientData, "htmlCode").units)),
                     is_literal |-> TRUE])
        ELSE envVariables

\* body('htmlCode').optional().trim() of the create and update routes
SanitizeHtmlCode(v) == IF v.type = "string" THEN Str(Trim(v.units)) ELSE v

\* clientData as the routes build it from the request
ClientData(body) ==
    <<[key |-> "name", value |-> Str(<<97>>)],
      [key |-> "description", value |-> Undefined],
      [key |-> "links", value |-> Undefined],
      [key |-> "customization", value |-> Undefined],
      [key |-> "logo", value |-> body.logo],
      [key |-> "deploymentType", value |-> body.deploymentType],
      [key |-> "htmlCode", value |-> SanitizeHtmlCode(body.htmlCode)]>>

\* 'template' and 'custom-html'
DeploymentTypes ==
    {Str(<<116, 101, 109, 112, 108, 97, 116, 101>>),
     Str(<<99, 117, 115, 116, 111, 109, 45, 104, 116, 109, 108>>)}

RouterIdle ==
    /\ env = [cloudflare |-> TRUE, coolify |-> TRUE, config |-> TRUE]
    /\ store = "reliable"
    /\ clients = [c \in Clients |-> [stored |-> TRUE, isDeployed |-> FALSE]]
    /\ dns = [c \in Clients |-> 0]
    /\ apps = [c \in Clients |-> 0]
    /\ req = [r \in Reqs |-> Idle]
    /\ last = Idle

InitEnv ==
    /\ RouterIdle
    /\ input \in [fn : {"envVariables"},
                  logo : {Undefined, Str(<<108>>)},
                  deploymentType : DeploymentTypes,
                  htmlCode : {Undefined} \cup
                             {Str(s) : s \in Strings(MaxHtmlLen)}]
    /\ output = NoCall

\* createDeployment builds the set for a new or found application
CreateDeploymentEnv ==
    /\ input.fn = "envVariables" /\ output = NoCall
    /\ output' = [fn |-> "createDeployment",
                  clientData |-> ClientData(input),
                  data |-> EnvVariables(ClientData(input))]
    /\ UNCHANGED <<env, store, clients, dns, apps, req, last, input>>

\* updateDeployment builds the set for the application it found
UpdateDeploymentEnv ==
    /\ input.fn = "envVariables" /\ output = NoCall
    /\ output' = [fn |-> "updateDeployment",
                  clientData |-> ClientData(input),
                  data |-> UpdateEnvVariables(ClientData(input))]
    /\ UNCHANGED <<env, store, clients, dns, apps, req, last, input>>

NextEnv == CreateDeploymentEnv \/ UpdateDeploymentEnv

SpecEnv == InitEnv /\ [][NextEnv]_vars

\* an environment set has been built
EnvBuilt == output.fn \in {"createDeployment", "updateDeployment"}
\* raw HTML is present in the payload
HtmlPresent == Truthy(Get(output.clientData, "htmlCode"))
\* a string without an unpaired surrogate code unit
WellFormed(s) ==
    \A i \in 1..Len(s) :
        /\ IsHighSurrogate(s[i]) => i < Len(s) /\ IsLowSurrogate(s[i + 1])
        /\ IsLowSurrogate(s[i]) => i > 1 /\ IsHighSurrogate(s[i - 1])
\* the serialized payload of both keys has no htmlCode member
NoHtmlCodeMember ==
    /\ ~Has(Get(output.data, "CLIENT_DATA"), "htmlCode")
    /\ ~Has(Get(output.data, "NEXT_PUBLIC_CLIENT_DATA"), "htmlCode")

\* C15 as stated: whenever raw HTML is present, the set has the base64
\* variable, it decodes to the raw HTML exactly, and the serialized payloads
\* have no htmlCode member.
C15_Base64DecodesToHtml ==
    (EnvBuilt /\ HtmlPresent)
    => /\ Has(output.data, "NEXT_PUBLIC_CUSTOM_HTML_BASE64")
       /\ DecodeBase64(Get(output.data, "NEXT_PUBLIC_CUSTOM_HTML_BASE64"))
              = Get(output.clientData, "htmlCode").units
       /\ NoHtmlCodeMember

\* C15 amended: whenever raw HTML is present the set has the base64
\* variable and the serialized payloads have no htmlCode member; the
\* variable decodes to the raw HTML exactly when the raw HTML has no
\* unpaired surrogate code unit.
C15_Base64DecodesWellFormedHtml ==
    (EnvBuilt /\ HtmlPresent)
    => /\ Has(output.data, "NEXT_PUBLIC_CUSTOM_HTML_BASE64")
       /\ WellFormed(Get(output.clientData, "htmlCode").units)
            => DecodeBase64(Get(output.data, "NEXT_PUBLIC_CUSTOM_HTML_BASE64"))
                   = Get(output.clientData, "htmlCode").units
       /\ NoHtmlCodeMember

C15_Witness ==
    /\ EnvBuilt /\ HtmlPresent
    /\ Get(output.clientData, "htmlCode").units = <<55357, 56832>>
    /\ Has(output.data, "NEXT_PUBLIC_CUSTOM_HTML_BASE64")

\* C16: every environment set built has CLIENT_DATA, NEXT_PUBLIC_CLIENT_DATA
\* with the same value, and NODE_ENV = production, and it has
\* NEXT_PUBLIC_CUSTOM_HTML_BASE64 if and only if raw HTML is present in the
\* payload.
C16_EnvironmentSetKeys ==
    EnvBuilt
    => /\ Has(output.data, "CLIENT_DATA")
       /\ Has(output.data, "NEXT_PUBLIC_CLIENT_DATA")
       /\ Get(output.data, "NEXT_PUBLIC_CLIENT_DATA")
              = Get(output.data, "CLIENT_DATA")
       /\ Has(output.data, "NODE_ENV")
       /\ Get(output.data, "NODE_ENV") = "production"
       /\ Has(output.data, "NEXT_PUBLIC_CUSTOM_HTML_BASE64") <=> HtmlPresent

\* a request whose htmlCode was blank: the payload has an empty htmlCode and
\* the set has the three fixed keys only
C16_Witness ==
    /\ EnvBuilt
    /\ input.htmlCode.type = "string" /\ input.htmlCode.units # <<>>
    /\ Get(output.clientData, "htmlCode") = Str(<<>>)
    /\ Len(output.data) = 3

\* ------------------------------------------- findApplicationByName (C17)
\* The lookup as a function of the requested name and of what
\* GET /api/v1/applications returns.
MaxNameLen == 2
MaxApps == 2

\* 'a', 'A' and '-'
NameUnits == {97, 65, 45}
Names == UNION {[1..k -> NameUnits] : k \in 1..MaxNameLen}
\* the provider's list: applications with their names, the uuid of an
\* application being its position
Applications ==
    UNION {[1..k -> [name : Names]] : k \in 0..MaxApps}
NoApp == [name |-> <<>>, uuid |-> 0]

\* variant: names are compared ignoring case
StrictEquals_ignoreCase(a, b) ==
    LET lower(s) == [i \in 1..Len(s) |-> IF s[i] = 65 THEN 97 ELSE s[i]]
    IN  lower(a) = lower(b)

\* a === b on strings
StrictEquals(a, b) == a = b

\* applications.find((app) => app.name === name) || null
Find(applications, name) ==
    IF \E i \in 1..Len(applications) :
           StrictEquals(applications[i].name, name)
    THEN LET i == CHOOSE k \in 1..Len(applications) :
                    /\ StrictEquals(applications[k].name, name)
                    /\ \A j \in 1..(k - 1) :
                          ~StrictEquals(applications[j].name, name)
         IN  [found |-> TRUE,
              app |-> [name |-> applications[i].name, uuid |-> i]]
    ELSE [found |-> FALSE, app |-> NoApp]

InitFind ==
    /\ RouterIdle
    /\ input \in [fn : {"findApplicationByName"}, name : Names,
                  applications : Applications]
    /\ output = NoCall

\* getApplications: response.data || [], or handleError throws
GetApplications ==
    /\ input.fn = "findApplicationByName" /\ output = NoCall
    /\ \E o \in Outcomes :
         output' = [fn |-> "getApplications", threw |-> o # 200,
                    applications |-> IF o = 200 THEN input.applications
                                     ELSE <<>>,
                    found |-> FALSE, app |-> NoApp]
    /\ UNCHANGED <<env, store, clients, dns, apps, req, last, input>>

\* findApplicationByName: the find on the list, null when the listing threw
FindApplicationByName ==
    /\ output.fn = "getApplications"
    /\ LET res == IF output.threw THEN [found |-> FALSE, app |-> NoApp]
                  ELSE Find(output.applications, input.name)
       IN  output' = [output EXCEPT !.fn = "findApplicationByName",
                                    !.found = res.found, !.app = res.app]
    /\ UNCHANGED <<env, store, clients, dns, apps, req, last, input>>

NextFind == GetApplications \/ FindApplicationByName

SpecFind == InitFind /\ [][NextFind]_vars

\* C17: a finished lookup returns an application only if that application
\* is in the provider's list under exactly the requested name, and returns
\* null when no application of the list has exactly that name.
C17_ExactNameMatch ==
    output.fn = "findApplicationByName"
    => /\ output.found
            => /\ output.app.uuid \in 1..Len(input.applications)
               /\ input.applications[output.app.uuid].name = input.name
               /\ output.app.name = input.name
       /\ (\A i \in 1..Len(input.applications) :
               input.applications[i].name # input.name)
            => ~output.found

\* "a" looked up in a list holding "A" and "a-" only
C17_Witness ==
    /\ output.fn = "findApplicationByName" /\ ~output.threw
    /\ input.name = <<97>>
    /\ input.applications = <<[name |-> <<65>>], [name |-> <<97, 45>>]>>
    /\ ~output.found

\* ------------------------------------------------------- handleError (C18)
\* The handleError of each adapter applied to an axios error, as a function
\* of the status of the response (0: no response) and of the message in its
\* body.
ResponseStatuses == {0, 400, 401, 403, 404, 409, 422, 429, 500, 502, 503}
NoMessage == "undefined"
ProviderMessages == {NoMessage, "quota exceeded", "zone locked"}

\* GoDaddyAPI.handleError
GoDaddyHandleError(status) ==
    [name |-> "GoDaddyAPIError",
     code |-> CASE status = 401 -> "UNAUTHORIZED"
                [] status = 403 -> "FORBIDDEN"
                [] status = 404 -> "NOT_FOUND"
                [] status = 429 -> "RATE_LIMIT"
                [] OTHER -> "API_ERROR",
     status |-> status,
     msg |-> "godaddy"]

\* the message of the error the Cloudflare and GoDaddy handlers throw
DnsErrorMessage(status, message, fallback) ==
    CASE status = 401 -> "Invalid API credentials"
      [] status = 403 -> "Access forbidden. Check API permissions"
      [] status = 404 -> "Resource not found"
      [] status = 429 -> "Rate limit exceeded"
      [] OTHER -> IF message # NoMessage THEN message ELSE fallback

\* the text after `${context}: ` in the message of the CoolifyAPIError;
\* error.message is axios' own "Request failed with status code N"
CoolifyErrorMessage(status, message) ==
    IF message # NoMessage THEN message ELSE "Request failed"

InitHandleError ==
    /\ RouterIdle
    /\ input \in [fn : {"handleError"},
                  adapter : {"cloudflare", "godaddy", "coolify"},
                  status : ResponseStatuses, message : ProviderMessages]
    /\ output = NoCall

CloudflareThrows ==
    /\ input.fn = "handleError" /\ input.adapter = "cloudflare"
    /\ output = NoCall
    /\ output' = [fn |-> "handleError",
                  error |-> CloudflareHandleError(input.status),
                  message |-> DnsErrorMessage(input.status, input.message,
                                  "An error occurred with the Cloudflare API")]
    /\ UNCHANGED <<env, store, clients, dns, apps, req, last, input>>

GoDaddyThrows ==
    /\ input.fn = "handleError" /\ input.adapter = "godaddy"
    /\ output = NoCall
    /\ output' = [fn |-> "handleError",
                  error |-> GoDaddyHandleError(input.status),
                  message |-> DnsErrorMessage(input.status, input.message,
                                  "An error occurred with the GoDaddy API")]
    /\ UNCHANGED <<env, store, clients, dns, apps, req, last, input>>

CoolifyThrows ==
    /\ input.fn = "handleError" /\ input.adapter = "coolify"
    /\ output = NoCall
    /\ output' = [fn |-> "handleError",
                  error |-> CoolifyHandleAxiosError(input.status, "context"),
                  message |-> CoolifyErrorMessage(input.status,
                                                  input.message)]
    /\ UNCHANGED <<env, store, clients, dns, apps, req, last, input>>

NextHandleError == CloudflareThrows \/ GoDaddyThrows \/ CoolifyThrows

SpecHandleError == InitHandleError /\ [][NextHandleError]_vars

\* C18: for a provider response with a failure status, the error thrown by
\* the handler of either adapter has code UNAUTHORIZED for 401, FORBIDDEN
\* for 403, NOT_FOUND for 404, RATE_LIMIT for 429 and API_ERROR for any
\* other status, the last with the provider's message when the body has
\* one.
C18_SameKindForStatus ==
    (output.fn = "handleError" /\ input.status # 0)
    => /\ output.error.code =
              CASE input.status = 401 -> "UNAUTHORIZED"
                [] input.status = 403 -> "FORBIDDEN"
                [] input.status = 404 -> "NOT_FOUND"
                [] input.status = 429 -> "RATE_LIMIT"
                [] OTHER -> "API_ERROR"
       /\ (input.status \notin {401, 403, 404, 429}
              /\ input.message # NoMessage)
            => output.message = input.message

\* C20: whenever createDeployment issues the application-create request, it
\* has made the lookup in the same call and no application named after the
\* subdomain exists at the provider.
C20_NoCreateWhileApplicationExists ==
    [][\A r \in Reqs :
         (At(r, "cdCreate") /\ req'[r] # req[r])
         => /\ "appList" \in req[r].calls
            /\ apps[Subdomain(req[r].cl)] = 0]_vars

\* ------------------------------------------------- several tenants (C19)
\* Two stored tenants, A and B, with configured services, each with at most
\* one record and one application; the deploy, update and undeploy routes
\* are invoked by the owners, one invocation per tenant at a time, the
\* invocations of the two tenants interleaving at every await.
Tenants == {1, 2}

InitTenants ==
    /\ env = [cloudflare |-> TRUE, coolify |-> TRUE, config |-> TRUE]
    /\ store = "reliable"
    /\ clients \in [Tenants -> {[stored |-> TRUE, isDeployed |-> FALSE],
                                 [stored |-> TRUE, isDeployed |-> TRUE]}]
    /\ dns \in [Tenants -> 0..1]
    /\ apps \in [Tenants -> 0..1]
    /\ req = [t \in Tenants |-> Idle]
    /\ last = Idle
    /\ input = NoCall /\ output = NoCall

\* no invocation has answered yet: the owners issue their requests before
\* the first of them is answered
NoneAnswered == last.pc = "idle"

NextTenants ==
    \E t \in Tenants :
        \/ NoneAnswered /\ DeployStart(t, t, Owner(t))
        \/ DeployDnsCheck(t)
        \/ DeployDnsCreate(t)
        \/ DeploySave(t)
        \/ NoneAnswered /\ UndeployStart(t, t, Owner(t))
        \/ DnsDeleteList(t)
        \/ DnsDeleteDelete(t)
        \/ AppDeleteFind(t)
        \/ AppDeleteDelete(t)
        \/ UndeploySave(t)
        \/ NoneAnswered /\ UpdateStart(t, t, Owner(t))
        \/ UpdateSave(t)
        \/ UpdateDeploymentFind(t)
        \/ UpdateDeploymentSetEnv(t)
        \/ UpdateDeploymentDeploy(t)
        \/ CreateDeploymentFind(t)
        \/ CreateDeploymentCreate(t)
        \/ CreateDeploymentSetEnv(t)
        \/ CreateDeploymentDeploy(t)

SpecTenants == InitTenants /\ [][NextTenants]_vars

\* C19: a step that creates, changes or deletes the DNS records, the
\* applications or the flag of a tenant is a step of an invocation for that
\* very tenant: invocations for another subdomain leave them alone.
C19_TenantsIndependent ==
    [][\A b \in Tenants :
         (\/ dns'[Subdomain(b)] # dns[Subdomain(b)]
          \/ apps'[Subdomain(b)] # apps[Subdomain(b)]
          \/ clients'[b] # clients[b])
         => \E t \in Tenants : req'[t] # req[t] /\ req[t].cl = b]_vars

\* a deploy of A and an undeploy of B in flight together, each having
\* changed the records of its own subdomain
C19_Witness ==
    /\ req[1].op = "deploy" /\ req[1].pc # "idle"
    /\ req[2].op = "undeploy" /\ req[2].pc # "idle"
    /\ dns[Subdomain(1)] = 1 /\ req[1].dns0 = 0
    /\ dns[Subdomain(2)] = 0 /\ req[2].dns0 = 1

\* C21: an answered Deploy, Update or Undeploy one of whose provider
\* requests failed, delete requests apart (a delete may fail with not
\* found), is not answered as a success.
C21_NoErrorSwallowed ==
    (/\ last.pc = "done" /\ last.op \in {"deploy", "update", "undeploy"}
     /\ last.failed \ {"dnsDelete", "appDelete"} # {})
    => last.resp.status # 200

\* C22: when the listing of deleteDeployment succeeded and held no
\* application of the subdomain, the error the undeploy route caught from
\* deleteDeployment has code NOT_FOUND and status 404.
C22_DeleteWithoutApplicationIsNotFound ==
    (/\ Answered("undeploy")
     /\ "appList" \in last.calls \ last.failed /\ ~last.appFound)
    => /\ last.depErr.code = "NOT_FOUND"
       /\ last.depErr.status = 404

\* C23: when a Deploy or an Update was stopped by the validation of the
\* static options in createDeployment, the invocation had issued no
\* provider request and the error its route caught has code
\* INVALID_PARAMETER.
C23_MissingConfigurationIsPrecondition ==
    (/\ last.pc = "done" /\ last.op \in {"deploy", "update"}
     /\ last.depErr.msg = "static options required")
    => /\ last.calls = {}
       /\ last.depErr.code = "INVALID_PARAMETER"

\* ------------------------------------------- deleteSubdomainRecord (C24)
\* The delete of each DNS adapter as a function of the subdomain and of the
\* number of records the provider holds under that name.
NoRecordCall == [fn |-> "deleteSubdomainRecord", pc |-> "start",
                 calls |-> {}, threw |-> FALSE, error |-> NoErr, deleted |-> 0]

InitDnsDelete ==
    /\ RouterIdle
    /\ input \in [fn : {"deleteSubdomainRecord"},
                  adapter : {"cloudflare", "godaddy"},
                  subdomain : Names \cup {<<>>},
                  records : 0..MaxPerName]
    /\ output = NoCall

\* if (!subdomain) throw INVALID_PARAMETER, outside the try block; otherwise
\* the method enters its try block
DeleteSubdomainRecord ==
    /\ input.fn = "deleteSubdomainRecord" /\ output = NoCall
    /\ output' = IF input.subdomain = <<>>
                 THEN [NoRecordCall EXCEPT
                          !.pc = "done", !.threw = TRUE,
                          !.error = [name |-> "APIError",
                                     code |-> "INVALID_PARAMETER",
                                     status |-> 0,
                                     msg |-> "Subdomain is required"]]
                 ELSE [NoRecordCall EXCEPT !.pc = input.adapter]
    /\ UNCHANGED <<env, store, clients, dns, apps, req, last, input>>

\* CloudflareAPI: GET dns_records?name=...; without a record it returns
CloudflareDeleteList ==
    /\ output.fn = "deleteSubdomainRecord" /\ output.pc = "cloudflare"
    /\ \E o \in Outcomes :
         output' =
            LET out == [output EXCEPT !.calls = @ \cup {"list"}]
            IN  IF o # 200
                THEN [out EXCEPT !.pc = "done", !.threw = TRUE,
                                 !.error = CloudflareHandleError(o)]
                ELSE IF RecordFound(input.records)
                THEN [out EXCEPT !.pc = "cloudflareDelete"]
                ELSE [out EXCEPT !.pc = "done"]
    /\ UNCHANGED <<env, store, clients, dns, apps, req, last, input>>

\* CloudflareAPI: DELETE dns_records/{recordId}
CloudflareDeleteById ==
    /\ output.fn = "deleteSubdomainRecord" /\ output.pc = "cloudflareDelete"
    /\ \E o \in Outcomes :
         output' =
            LET out == [output EXCEPT !.calls = @ \cup {"delete"},
                                      !.pc = "done"]
            IN  IF o # 200
                THEN [out EXCEPT !.threw = TRUE,
                                 !.error = CloudflareHandleError(o)]
                ELSE [out EXCEPT !.deleted = 1]
    /\ UNCHANGED <<env, store, clients, dns, apps, req, last, input>>

\* GoDaddyAPI: DELETE records/CNAME/{subdomain}, whatever the provider
\* holds; the provider answers 404 for a name without a record
GoDaddyDelete ==
    /\ output.fn = "deleteSubdomainRecord" /\ output.pc = "godaddy"
    /\ \E o \in Outcomes :
         output' =
            LET out == [output EXCEPT !.calls = @ \cup {"delete"},
                                      !.pc = "done"]
                answer == IF o = 200 /\ input.records = 0 THEN 404 ELSE o
            IN  IF answer # 200
                THEN [out EXCEPT !.threw = TRUE,
                                 !.error = GoDaddyHandleError(answer)]
                ELSE [out EXCEPT !.deleted = input.records]
    /\ UNCHANGED <<env, store, clients, dns, apps, req, last, input>>

NextDnsDelete ==
    \/ DeleteSubdomainRecord
    \/ CloudflareDeleteList
    \/ CloudflareDeleteById
    \/ GoDaddyDelete

SpecDnsDelete == InitDnsDelete /\ [][NextDnsDelete]_vars

\* C24: a finished DNS delete for a subdomain without a record, whose
\* listing request (where the adapter makes one) succeeded, has returned
\* without an error and has issued no delete request, with either adapter.
C24_DeleteWithoutRecordIsNoOp ==
    (/\ output.fn = "deleteSubdomainRecord" /\ output.pc = "done"
     /\ input.subdomain # <<>> /\ input.records = 0
     /\ "list" \in output.calls => output.error = NoErr)
    => /\ ~output.threw
       /\ "delete" \notin output.calls

\* C25: a Deploy issues the DNS create only after its availability check
\* succeeded, and when the create is answered with an error by the provider
\* because a record of the name exists by then, the invocation goes on to
\* the deployment phase.
C25_DnsCreateAfterCheckToleratesExisting ==
    [][\A r \in Slots :
         (At(r, "deployDnsCreate") /\ req'[r] # req[r])
         => /\ "dnsCheck" \in req[r].calls \ req[r].failed
            /\ (/\ dns[Subdomain(req[r].cl)] > 0
                /\ ~(last'.pc = "done" /\ last'.resp.err.status = 0))
               => req'[r].pc = "cdFind"]_vars

\* C26: an admitted Update of a Deployed tenant none of whose provider
\* requests failed: when no application of the subdomain existed (static
\* options set) it has listed, created the application, set the environment
\* and triggered the deploy; when one existed it has listed, set the
\* environment and triggered the deploy and the applications are as before.
C26_UpdateFindOrCreate ==
    (Admitted("update") /\ last.loaded /\ last.failed = {})
    => /\ (last.apps0 = 0 /\ env.config)
            => /\ last.calls = {"appList", "appCreate", "setEnv", "trigger"}
               /\ apps[Subdomain(last.cl)] = 1
               /\ last.resp.status = 200
       /\ last.apps0 > 0
            => /\ last.calls = {"appList", "setEnv", "trigger"}
               /\ apps[Subdomain(last.cl)] = last.apps0
               /\ last.resp.status = 200

C26_Witness ==
    /\ Admitted("update") /\ last.loaded /\ last.failed = {}
    /\ last.apps0 = 0 /\ "appCreate" \in last.calls
    /\ apps[Subdomain(last.cl)] = 1 /\ last.resp.status = 200

\* C27: the environment set built by updateDeployment for a payload is the
\* set createDeployment builds for that payload, key by key and value by
\* value, and the other way round; either is a function of the payload
\* alone.
C27_UpdateWritesSameSetAsDeploy ==
    /\ output.fn = "updateDeployment"
         => output.data = EnvVariables(output.clientData)
    /\ output.fn = "createDeployment"
         => output.data = UpdateEnvVariables(output.clientData)

C27_Witness ==
    /\ output.fn = "updateDeployment" /\ HtmlPresent
    /\ Len(output.data) = 4
    /\ output.data = EnvVariables(output.clientData)

\* the requests of invocation rec respect the order of the deployment phase
DeploymentPhaseOrdered(rec) ==
    /\ "trigger" \in rec.calls => "setEnv" \in rec.calls \ rec.failed
    /\ "setEnv" \in rec.calls
         => /\ "appList" \in rec.calls
            /\ \/ rec.appFound
               \/ "appCreate" \in rec.calls \ rec.failed
    /\ "appCreate" \in rec.calls => "appList" \in rec.calls

\* C28: in every invocation that runs the deployment phase, answered or in
\* flight, the deploy is triggered only after the environment was set
\* successfully, and the environment is set only after the lookup found the
\* application or a create answered 2xx with an identifier; a create comes
\* after the lookup.
C28_DeploymentPhaseOrder ==
    /\ last.op \in {"create", "deploy", "update"}
         => DeploymentPhaseOrdered(last)
    /\ \A r \in Reqs :
         req[r].op \in {"create", "deploy", "update"}
           => DeploymentPhaseOrdered(req[r])

C28_Witness ==
    /\ Answered("deploy") /\ ~last.appFound
    /\ {"appList", "appCreate", "setEnv", "trigger"} \subseteq last.calls
    /\ last.failed = {}

\* C29: once every concurrent Deploy invocation has finished, a tenant
\* whose flag is Deployed has a DNS record and an application for its
\* subdomain at the providers.
C29_DeployedImpliesRecordAndApplication ==
    (\A r \in Slots : req[r].pc = "idle")
    => \A c \in Clients :
         clients[c].isDeployed
           => /\ dns[Subdomain(c)] >= 1
              /\ apps[Subdomain(c)] >= 1

\* ------------------------------------------------------- rejected saves (C30)
\* The routes over a store whose Client.save() may reject (a lost
\* connection, a validation error): every save has both outcomes.
InitFaultyStore ==
    /\ env \in [cloudflare : BOOLEAN, coolify : BOOLEAN, config : BOOLEAN]
    /\ store = "faulty"
    /\ clients \in [Clients -> {[stored |-> FALSE, isDeployed |-> FALSE],
                                 [stored |-> TRUE, isDeployed |-> FALSE],
                                 [stored |-> TRUE, isDeployed |-> TRUE]}]
    /\ dns \in [Clients -> 0..MaxPerName]
    /\ apps \in [Clients -> 0..MaxPerName]
    /\ req = [r \in Reqs |-> Idle]
    /\ last = Idle
    /\ input = NoCall /\ output = NoCall

SpecFaultyStore == InitFaultyStore /\ [][Next]_vars

\* C30: an answered Deploy whose set-environment and trigger-deploy requests
\* both succeeded (so find-or-create succeeded too) has issued no request of
\* the compensating DNS delete, whatever became of the save of the flag.
C30_CleanupOnlyAfterDeploymentFailure ==
    (/\ Answered("deploy")
     /\ {"setEnv", "trigger"} \subseteq last.calls \ last.failed)
    => /\ "dnsFind" \notin last.calls
       /\ "dnsDelete" \notin last.calls

\* C31: an answered Deploy that created the application itself (none existed
\* when it began) and then failed to set the environment or to trigger the
\* deploy leaves no application for the subdomain at the provider.
C31_FailedDeployLeavesNoApplication ==
    (/\ Answered("deploy") /\ last.apps0 = 0
     /\ "appCreate" \in last.calls \ last.failed
     /\ {"setEnv", "trigger"} \cap last.failed # {})
    => apps[Subdomain(last.cl)] = 0

\* checkSubdomainAvailability answered by a provider that holds `records`
\* records under the name: return response.data.result.length === 0
CheckSubdomainAvailability(records) == records = 0

\* C32: after a DNS delete that returned without an error, the availability
\* check of the same name answers available, however many records the name
\* had before the delete.
C32_AvailableAfterDelete ==
    (/\ output.fn = "deleteSubdomainRecord" /\ output.pc = "done"
     /\ ~output.threw)
    => CheckSubdomainAvailability(input.records - output.deleted)

\* C33: the error with which createDeployment, updateDeployment or
\* deleteDeployment left an answered invocation, a request without a
\* response included, is a CoolifyAPIError that carries a code.
C33_AdapterThrowsCoolifyAPIError ==
    (last.pc = "done" /\ last.depErr # NoErr)
    => /\ last.depErr.name = "CoolifyAPIError"
       /\ last.depErr.code # "none"

\* invocation rec stands right after a createDeployment that returned
AfterCreateDeployment(rec) ==
    /\ rec.op \in {"deploy", "create"}
    /\ rec.pc \in {"deploySave", "createSave"}
    /\ {"setEnv", "trigger"} \subseteq rec.calls \ rec.failed

\* C34: in every step, the flag of a stored tenant goes from NotDeployed to
\* Deployed only by the save of a Deploy or create-client invocation whose
\* createDeployment has just returned, and from Deployed to NotDeployed
\* only by the save of an Undeploy invocation with fewer than two failed
\* phases; a tenant is first stored NotDeployed; and an invocation answered
\* in the step that is an Update, or is answered with a status of 400 or
\* more, leaves the flag of its tenant as it found it.
C34_FlagTransitions ==
    [][/\ \A c \in Clients :
            /\ (~clients[c].stored /\ clients'[c].stored)
                 => ~clients'[c].isDeployed
            /\ (/\ clients[c].stored
                /\ clients'[c].isDeployed # clients[c].isDeployed)
                 => \E r \in Reqs :
                      /\ req[r].cl = c /\ req'[r] # req[r]
                      /\ IF clients'[c].isDeployed
                         THEN AfterCreateDeployment(req[r])
                         ELSE /\ req[r].op = "undeploy"
                              /\ req[r].pc = "undeploySave"
                              /\ Cardinality(req[r].errors) < 2
       /\ (/\ last' # last /\ last'.pc = "done"
           /\ clients[last'.cl].stored
           /\ last'.op = "update" \/ last'.resp.status >= 400)
            => clients'[last'.cl].isDeployed = last'.loaded]_vars

C34_Witness ==
    /\ Answered("deploy") /\ last.resp.status = 200
    /\ ~last.loaded /\ clients[last.cl].isDeployed
    /\ {"setEnv", "trigger"} \subseteq last.calls \ last.failed

C36_UpdateNotDeployedNoProviderCall ==
    (/\ Answered("update") /\ clients[last.cl].stored
     /\ last.user = Owner(last.cl) /\ ~last.loaded)
    => /\ last.calls = {}
       /\ dns[Subdomain(last.cl)] = last.dns0
       /\ apps[Subdomain(last.cl)] = last.apps0
       /\ ~clients[last.cl].isDeployed

C36_Witness ==
    /\ Answered("update") /\ clients[last.cl].stored
    /\ last.user = Owner(last.cl) /\ ~last.loaded
    /\ last.resp.status = 200 /\ last.calls = {}
    /\ env.coolify

\* C37: every answered Deploy, Undeploy and Update invocation has sent
\* exactly one response, the invocations that found a provider client
\* missing included.
C37_ExactlyOneResponse ==
    (last.pc = "done" /\ last.op \in {"deploy", "undeploy", "update"})
    => last.sent = 1

\* an answered Deploy, Undeploy or Update on a stored tenant by a user who
\* does not own it
NonOwnerAnswered ==
    /\ last.pc = "done" /\ last.op \in {"deploy", "undeploy", "update"}
    /\ clients[last.cl].stored /\ last.user # Owner(last.cl)

\* the invocation answered last issued no provider request and left the
\* records, the applications and the flag of its tenant as they were
NothingTouched ==
    /\ last.calls = {}
    /\ dns[Subdomain(last.cl)] = last.dns0
    /\ apps[Subdomain(last.cl)] = last.apps0
    /\ clients[last.cl].isDeployed = last.loaded

====
